---- MODULE Spec2Model ----
(***************************************************************************)
(* Galaxy Night Sky (src/script.js): the scene state, the frame callback,  *)
(* the resize / click / pointer / toggle callbacks, the meteor lifecycle   *)
(* and the band-star rejection sampler.                                    *)
(*                                                                         *)
(* Units.  Times are integer milliseconds, lengths integer pixels, angles  *)
(* integer degrees (the code keeps radians; degToRad is the change of unit *)
(* and the trigonometric table below is indexed in degrees), parallax      *)
(* offsets are in thousandths.  Math.random() is a draw u in thousandths,  *)
(* 0 <= u < 1000, and rand(min, max) is computed from it as the code does. *)
(* performance.now() and the requestAnimationFrame timestamp are one       *)
(* clock, which advances only when a frame runs.                           *)
(***************************************************************************)
EXTENDS Integers, Sequences, FiniteSets, TLC

VARIABLES
  clock,        \* performance.now()
  last,         \* let last (script.js:225)
  W, H,         \* viewport (script.js:31)
  stars,        \* general star collection (script.js:32)
  bandStars,    \* band star collection (script.js:33)
  meteor,       \* the meteor or Null (script.js:34)
  nextMeteorAt, \* earliest time of the next spawn (script.js:35)
  parallax,     \* script.js:38
  milky,        \* script.js:41-46
  chkTwinkle, chkMeteors, chkMilky,   \* the three checkboxes' .checked
  fx,           \* what the last callback did: calls made and canvas draws
  lastSpawnAt,  \* time of the last spawnMeteor call, -1 before the first
  prevSpawnAt,  \* time of the spawnMeteor call before the last, -1 if none
  synthRun,     \* makeMilkyTexture calls made by frames since the last resize or click
  clicks,       \* number of click events so far
  band          \* the activation record of a stepped makeBandStars call

vars == << clock, last, W, H, stars, bandStars, meteor, nextMeteorAt, parallax,
           milky, chkTwinkle, chkMeteors, chkMilky, fx, lastSpawnAt, prevSpawnAt, synthRun,
           clicks, band >>

----------------------------------------------------------------------------
(* Program constants *)

STAR_COUNT == 420
BAND_COUNT == 420
METEOR_MIN_GAP == 3800
METEOR_MAX_GAP == 9500
TRAIL_CAP == 120
MARGIN == 200
BAND_MARGIN == 50
TRIES_PER_STAR == 30
LIFE_MIN == 500
LIFE_MAX == 1100
SPEED_MIN == 650
SPEED_MAX == 1150
NUDGE_DEG == 8
MIN_BAND_WIDTH == 120

(* Bounds of the model *)

MaxTime == 10000
MaxClicks == 1
MaxCount == 2
MovesUntil == 300

(* Scales *)

RandDen == 1000
PScale == 1000

----------------------------------------------------------------------------
(* Values *)

Null == [isNull |-> TRUE]

Max(a, b) == IF a >= b THEN a ELSE b
Min(a, b) == IF a <= b THEN a ELSE b
Abs(n) == IF n >= 0 THEN n ELSE -n

\* Quotient rounded toward zero (the model's stand-in for a real quotient).
IDiv(a, b) == IF a >= 0 THEN a \div b ELSE -((-a) \div b)

clamp(v, a, b) == Max(a, Min(b, v))

\* Mutant: the range is computed as max + min
rand_sum(min, max, u) == IDiv(u * (max + min), RandDen) + min

\* rand(min, max) with Math.random() = u / RandDen
rand(min, max, u) == IDiv(u * (max - min), RandDen) + min

SinTab ==
  << 0, 17, 35, 52, 70, 87, 105, 122, 139, 156, 174, 191, 208, 225, 242,
     259, 276, 292, 309, 326, 342, 358, 375, 391, 407, 423, 438, 454, 469, 485,
     500, 515, 530, 545, 559, 574, 588, 602, 616, 629, 643, 656, 669, 682, 695,
     707, 719, 731, 743, 755, 766, 777, 788, 799, 809, 819, 829, 839, 848, 857,
     866, 875, 883, 891, 899, 906, 914, 921, 927, 934, 940, 946, 951, 956, 961,
     966, 970, 974, 978, 982, 985, 988, 990, 993, 995, 996, 998, 999, 999, 1000,
     1000, 1000, 999, 999, 998, 996, 995, 993, 990, 988, 985, 982, 978, 974, 970,
     966, 961, 956, 951, 946, 940, 934, 927, 921, 914, 906, 899, 891, 883, 875,
     866, 857, 848, 839, 829, 819, 809, 799, 788, 777, 766, 755, 743, 731, 719,
     707, 695, 682, 669, 656, 643, 629, 616, 602, 588, 574, 559, 545, 530, 515,
     500, 485, 469, 454, 438, 423, 407, 391, 375, 358, 342, 326, 309, 292, 276,
     259, 242, 225, 208, 191, 174, 156, 139, 122, 105, 87, 70, 52, 35, 17,
     0, -17, -35, -52, -70, -87, -105, -122, -139, -156, -174, -191, -208, -225, -242,
     -259, -276, -292, -309, -326, -342, -358, -375, -391, -407, -423, -438, -454, -469, -485,
     -500, -515, -530, -545, -559, -574, -588, -602, -616, -629, -643, -656, -669, -682, -695,
     -707, -719, -731, -743, -755, -766, -777, -788, -799, -809, -819, -829, -839, -848, -857,
     -866, -875, -883, -891, -899, -906, -914, -921, -927, -934, -940, -946, -951, -956, -961,
     -966, -970, -974, -978, -982, -985, -988, -990, -993, -995, -996, -998, -999, -999, -1000,
     -1000, -1000, -999, -999, -998, -996, -995, -993, -990, -988, -985, -982, -978, -974, -970,
     -966, -961, -956, -951, -946, -940, -934, -927, -921, -914, -906, -899, -891, -883, -875,
     -866, -857, -848, -839, -829, -819, -809, -799, -788, -777, -766, -755, -743, -731, -719,
     -707, -695, -682, -669, -656, -643, -629, -616, -602, -588, -574, -559, -545, -530, -515,
     -500, -485, -469, -454, -438, -423, -407, -391, -375, -358, -342, -326, -309, -292, -276,
     -259, -242, -225, -208, -191, -174, -156, -139, -122, -105, -87, -70, -52, -35, -17 >>

\* 1000 * Math.sin / Math.cos of an angle in degrees
Sin1000(deg) == SinTab[(deg % 360) + 1]
Cos1000(deg) == SinTab[((deg + 90) % 360) + 1]

\* The integer square root of n >= 1, by Newton's iteration from x >= sqrt(n)
RECURSIVE SqrtFrom(_, _)
SqrtFrom(n, x) ==
  IF (x + n \div x) \div 2 >= x THEN x ELSE SqrtFrom(n, (x + n \div x) \div 2)

\* Math.hypot(a, b), rounded down
Hypot(a, b) == IF a = 0 /\ b = 0 THEN 0 ELSE SqrtFrom(a * a + b * b, a + b)

----------------------------------------------------------------------------
(* Scene construction *)

\* makeStars: a new collection of `count` stars placed in the W x H viewport
makeStars(count, w, h) == [ n |-> count, W |-> w, H |-> h ]

\* makeBandStars(count) as one call: a new collection of at most `count`
\* stars placed along the band of the given geometry (its loop is stepped
\* by BandIter / BandReturn below)
makeBandStars(count, w, h, mk) ==
  [ count |-> count, W |-> w, H |-> h, angle |-> mk.angle, width |-> mk.width ]

\* Mutant: the flag is left as it was
makeMilkyTexture_keepFlag(w, h, mk) ==
  [ mk EXCEPT !.texture = [ W |-> w, H |-> h, angle |-> mk.angle, width |-> mk.width ] ]

\* makeMilkyTexture: a new offscreen canvas, and the flag cleared
makeMilkyTexture(w, h, mk) ==
  [ mk EXCEPT !.texture = [ W |-> w, H |-> h, angle |-> mk.angle, width |-> mk.width ],
              !.dirty = FALSE ]

\* resize(): the band width follows the shorter side, the flag is set
resize(vw, vh, mk) ==
  [ mk EXCEPT !.width = Max(MIN_BAND_WIDTH, IDiv(Min(vw, vh) * 45, 100)),
              !.dirty = TRUE ]

\* Mutant: the re-seed leaves the texture to the next frame
seedScene_lazyTexture(w, h, mk) ==
  [ stars |-> makeStars(STAR_COUNT, w, h),
    bandStars |-> makeBandStars(BAND_COUNT, w, h, mk),
    milky |-> mk,
    made |-> { "stars", "bandStars" } ]

\* seedScene(): both collections and the texture are built anew; `made`
\* names the objects constructed
seedScene(w, h, mk) ==
  [ stars |-> makeStars(STAR_COUNT, w, h),
    bandStars |-> makeBandStars(BAND_COUNT, w, h, mk),
    milky |-> makeMilkyTexture(w, h, mk),
    made |-> { "stars", "bandStars", "texture" } ]

----------------------------------------------------------------------------
(* Meteors *)

\* A tape of Math.random() draws, one per draw of spawnMeteor and of the
\* reschedule that follows it.
Tape(side, sx, sy, ja, sp, life, gap) ==
  [ side |-> side, sx |-> sx, sy |-> sy, ja |-> ja, sp |-> sp,
    life |-> life, gap |-> gap ]

spawnMeteor(rnd, w, h, mk) ==
  LET fromLeft == 2 * rnd.side < RandDen
      startX == IF fromLeft
                THEN rand(IDiv(-w * 2, 10), IDiv(w, 10), rnd.sx)
                ELSE rand(IDiv(w * 9, 10), IDiv(w * 12, 10), rnd.sx)
      startY == rand(IDiv(-h, 10), IDiv(h * 35, 100), rnd.sy)
      baseAngle == mk.angle + (IF fromLeft THEN 0 ELSE 180)
      a == baseAngle + rand(-8, 8, rnd.ja)
      speed == IDiv(rand(SPEED_MIN, SPEED_MAX, rnd.sp) * Max(w, h), 1000)
  IN  [ x |-> startX, y |-> startY,
        vx |-> IDiv(Cos1000(a) * speed, 1000),
        vy |-> IDiv(Sin1000(a) * speed, 1000),
        life |-> rand(LIFE_MIN, LIFE_MAX, rnd.life),
        age |-> 0,
        trail |-> << >> ]

\* Mutant: the spawn test reduced to the toggle
SpawnCond_toggleOnly(t) == chkMeteors

\* Mutant: the spawn test without the timestamp
SpawnCond_anyTime(t) == chkMeteors /\ (meteor = Null \/ meteor.age > meteor.life)

\* Mutant: no spawn after the first
SpawnCond_once(t) ==
  /\ chkMeteors /\ (meteor = Null \/ meteor.age > meteor.life) /\ t >= nextMeteorAt
  /\ lastSpawnAt < 0

\* The spawn test of handleMeteors at time t
SpawnCond(t) ==
  chkMeteors /\ (meteor = Null \/ meteor.age > meteor.life) /\ t >= nextMeteorAt

\* Mutant: the push without the shift
TrailPush_noShift(trail, s) == Append(trail, s)

\* meteor.trail.push(s); if (meteor.trail.length > 120) meteor.trail.shift()
TrailPush(trail, s) ==
  LET pushed == Append(trail, s)
  IN  IF Len(pushed) > TRAIL_CAP THEN Tail(pushed) ELSE pushed

\* Mutant: neither the age nor the position advance
MeteorStep_still(m, step) ==
  [ m EXCEPT !.trail = TrailPush(m.trail, [ x |-> m.x, y |-> m.y, t |-> m.age ]) ]

\* Age, motion and trail of one handleMeteors call on meteor m
MeteorStep(m, step) ==
  LET age1 == m.age + step
      x1 == m.x + IDiv(m.vx * step, 1000)
      y1 == m.y + IDiv(m.vy * step, 1000)
  IN  [ m EXCEPT !.age = age1, !.x = x1, !.y = y1,
                 !.trail = TrailPush(m.trail, [ x |-> x1, y |-> y1, t |-> age1 ]) ]

\* Mutant: the cleanup removes a meteor whose age has reached its life
CullCond_atLife(m, w, h) ==
  \/ m.age >= m.life
  \/ m.x < -MARGIN \/ m.x > w + MARGIN
  \/ m.y < -MARGIN \/ m.y > h + MARGIN

\* The cleanup test of handleMeteors
CullCond(m, w, h) ==
  \/ m.age > m.life
  \/ m.x < -MARGIN \/ m.x > w + MARGIN
  \/ m.y < -MARGIN \/ m.y > h + MARGIN

\* Mutant: the timestamp is recomputed when the meteor is removed, too
handleMeteors_reschedOnCull(dt, t, rnd) ==
  LET spawn == SpawnCond(t)
      m0 == IF spawn THEN spawnMeteor(rnd, W, H, milky) ELSE meteor
      next0 == IF spawn
               THEN t + rand(METEOR_MIN_GAP, METEOR_MAX_GAP, rnd.gap)
               ELSE nextMeteorAt
  IN  IF m0 = Null
      THEN [ meteor |-> Null, next |-> next0, spawned |-> spawn, upd |-> Null ]
      ELSE LET m1 == MeteorStep(m0, dt)
               cull == CullCond(m1, W, H)
           IN  [ meteor |-> IF cull THEN Null ELSE m1,
                 next |-> IF cull
                          THEN t + rand(METEOR_MIN_GAP, METEOR_MAX_GAP, rnd.gap)
                          ELSE next0,
                 spawned |-> spawn,
                 upd |-> [ age |-> m1.age, life |-> m1.life, x |-> m1.x, y |-> m1.y ] ]

\* handleMeteors(dt) run at time t: the meteor and the timestamp it leaves,
\* whether it called spawnMeteor, and the meteor as updated before cleanup.
handleMeteors(dt, t, rnd) ==
  LET spawn == SpawnCond(t)
      m0 == IF spawn THEN spawnMeteor(rnd, W, H, milky) ELSE meteor
      next0 == IF spawn
               THEN t + rand(METEOR_MIN_GAP, METEOR_MAX_GAP, rnd.gap)
               ELSE nextMeteorAt
  IN  IF m0 = Null
      THEN [ meteor |-> Null, next |-> next0, spawned |-> spawn, upd |-> Null ]
      ELSE LET m1 == MeteorStep(m0, dt)
           IN  [ meteor |-> IF CullCond(m1, W, H) THEN Null ELSE m1,
                 next |-> next0, spawned |-> spawn,
                 upd |-> [ age |-> m1.age, life |-> m1.life, x |-> m1.x, y |-> m1.y ] ]

----------------------------------------------------------------------------
(* Callbacks *)

\* What a callback did: whether it was frame(), whether it called
\* spawnMeteor, the meteor as updated before cleanup, the texture it drew,
\* the objects it constructed.
Fx(frame, spawned, upd, drawn, made) ==
  [ frame |-> frame, spawned |-> spawned, upd |-> upd, drawn |-> drawn, made |-> made ]

NoFx(made) == Fx(FALSE, FALSE, Null, Null, made)

\* Mutant: the easing factor above 1
Ease_overshoot(cur, target) == cur + IDiv((target - cur) * 106, 100)

\* parallax.x += (parallax.targetX - parallax.x) * 0.06
Ease(cur, target) == cur + IDiv((target - cur) * 6, 100)

\* Whether frame() rebuilds the band texture
RegenCond == chkMilky /\ (milky.dirty \/ milky.texture = Null)

\* Mutant: the band texture is drawn whatever the toggle says
DrawCond_always == TRUE

\* Whether frame() draws the band texture
DrawCond == chkMilky

\* frame(now), run dt after the previous reading of the clock
Frame(dt, rnd) ==
  /\ clock + dt <= MaxTime
  /\ LET t == clock + dt
         d == t - last
         regen == RegenCond
         mk == IF regen THEN makeMilkyTexture(W, H, milky) ELSE milky
         hm == handleMeteors(d, t, rnd)
     IN  /\ clock' = t
         /\ last' = t
         /\ parallax' = [ parallax EXCEPT !.x = Ease(parallax.x, parallax.targetX),
                                          !.y = Ease(parallax.y, parallax.targetY) ]
         /\ milky' = mk
         /\ meteor' = hm.meteor
         /\ nextMeteorAt' = hm.next
         /\ lastSpawnAt' = IF hm.spawned THEN t ELSE lastSpawnAt
         /\ prevSpawnAt' = IF hm.spawned THEN lastSpawnAt ELSE prevSpawnAt
         /\ synthRun' = IF regen THEN Min(synthRun + 1, 2) ELSE synthRun
         /\ fx' = Fx(TRUE, hm.spawned, hm.upd,
                     IF DrawCond THEN mk.texture ELSE Null,
                     IF regen THEN { "texture" } ELSE {})
  /\ UNCHANGED << W, H, stars, bandStars, chkTwinkle, chkMeteors, chkMilky, clicks, band >>

\* The resize listener: resize(); seedScene()
Resize(vw, vh) ==
  LET sc == seedScene(vw, vh, resize(vw, vh, milky))
  IN  /\ W' = vw
      /\ H' = vh
      /\ stars' = sc.stars
      /\ bandStars' = sc.bandStars
      /\ milky' = sc.milky
      /\ synthRun' = 0
      /\ fx' = NoFx(sc.made)
      /\ UNCHANGED << clock, last, meteor, nextMeteorAt, parallax, chkTwinkle,
                      chkMeteors, chkMilky, lastSpawnAt, prevSpawnAt, clicks, band >>

\* Mutant: the click re-seeds the general stars as well
Click_reseedAll(u) ==
  /\ clicks < MaxClicks
  /\ LET mk1 == [ milky EXCEPT !.angle = milky.angle + rand(-NUDGE_DEG, NUDGE_DEG, u),
                               !.dirty = TRUE ]
     IN  /\ milky' = mk1
         /\ bandStars' = makeBandStars(BAND_COUNT, W, H, mk1)
  /\ stars' = makeStars(STAR_COUNT, W, H)
  /\ clicks' = clicks + 1
  /\ synthRun' = 0
  /\ fx' = NoFx({ "stars", "bandStars" })
  /\ UNCHANGED << clock, last, W, H, meteor, nextMeteorAt, parallax,
                  chkTwinkle, chkMeteors, chkMilky, lastSpawnAt, prevSpawnAt, band >>

\* Mutant: the click leaves the texture's flag alone
Click_keepTexture(u) ==
  /\ clicks < MaxClicks
  /\ LET mk1 == [ milky EXCEPT !.angle = milky.angle + rand(-NUDGE_DEG, NUDGE_DEG, u) ]
     IN  /\ milky' = mk1
         /\ bandStars' = makeBandStars(BAND_COUNT, W, H, mk1)
  /\ clicks' = clicks + 1
  /\ synthRun' = 0
  /\ fx' = NoFx({ "bandStars" })
  /\ UNCHANGED << clock, last, W, H, stars, meteor, nextMeteorAt, parallax,
                  chkTwinkle, chkMeteors, chkMilky, lastSpawnAt, prevSpawnAt, band >>

\* The click listener: nudge the band angle, mark the texture stale, re-seed the band stars
Click(u) ==
  /\ clicks < MaxClicks
  /\ LET mk1 == [ milky EXCEPT !.angle = milky.angle + rand(-NUDGE_DEG, NUDGE_DEG, u),
                               !.dirty = TRUE ]
     IN  /\ milky' = mk1
         /\ bandStars' = makeBandStars(BAND_COUNT, W, H, mk1)
  /\ clicks' = clicks + 1
  /\ synthRun' = 0
  /\ fx' = NoFx({ "bandStars" })
  /\ UNCHANGED << clock, last, W, H, stars, meteor, nextMeteorAt, parallax,
                  chkTwinkle, chkMeteors, chkMilky, lastSpawnAt, prevSpawnAt, band >>

\* a ?? b, with undefined as the empty tuple and a value v as << v >>
Nullish(a, b) == IF a = << >> THEN b ELSE a[1]

\* onPointer(e): mousemove and touchmove
OnPointer(e) ==
  LET x == Nullish(e.clientX,
                   IF e.touches = << >> THEN IDiv(W, 2) ELSE e.touches[1].clientX)
      y == Nullish(e.clientY,
                   IF e.touches = << >> THEN IDiv(H, 2) ELSE e.touches[1].clientY)
      nx == IDiv(x * 2 * PScale, W) - PScale
      ny == IDiv(y * 2 * PScale, H) - PScale
  IN  /\ parallax' = [ parallax EXCEPT !.targetX = nx, !.targetY = ny ]
      /\ fx' = NoFx({})
      /\ UNCHANGED << clock, last, W, H, stars, bandStars, meteor, nextMeteorAt,
                      milky, chkTwinkle, chkMeteors, chkMilky, lastSpawnAt, prevSpawnAt,
                      synthRun, clicks, band >>

\* Mutant: the listener leaves the meteor alone
MeteorsChange_keep(checked) == meteor

\* The change listener of #toggleMeteors, run as the box flips
MeteorsChange(checked) == IF ~checked THEN Null ELSE meteor

ToggleMeteors ==
  /\ chkMeteors' = ~chkMeteors
  /\ meteor' = MeteorsChange(chkMeteors')
  /\ fx' = NoFx({})
  /\ UNCHANGED << clock, last, W, H, stars, bandStars, nextMeteorAt, parallax,
                  milky, chkTwinkle, chkMilky, lastSpawnAt, prevSpawnAt, synthRun, clicks, band >>

\* The change listener of #toggleMilky (empty), run as the box flips
ToggleMilky ==
  /\ chkMilky' = ~chkMilky
  /\ fx' = NoFx({})
  /\ UNCHANGED << clock, last, W, H, stars, bandStars, meteor, nextMeteorAt,
                  parallax, milky, chkTwinkle, chkMeteors, lastSpawnAt, prevSpawnAt, synthRun,
                  clicks, band >>

\* The change listener of #toggleTwinkle (empty), run as the box flips
ToggleTwinkle ==
  /\ chkTwinkle' = ~chkTwinkle
  /\ fx' = NoFx({})
  /\ UNCHANGED << clock, last, W, H, stars, bandStars, meteor, nextMeteorAt,
                  parallax, milky, chkMeteors, chkMilky, lastSpawnAt, prevSpawnAt, synthRun,
                  clicks, band >>

----------------------------------------------------------------------------
(* makeBandStars(count), one loop iteration per step.  band is the call's *)
(* activation record: its count, arr and tries, and where it stands.      *)

\* Mutant: the attempt budget tested with <=
BandLoopCond_offByOne(b) ==
  Len(b.arr) < b.count /\ b.tries <= b.count * TRIES_PER_STAR

\* while (arr.length < count && tries < count * 30)
BandLoopCond(b) ==
  Len(b.arr) < b.count /\ b.tries < b.count * TRIES_PER_STAR

\* The point sampled along the band line: Math.random() = ut / RandDen for
\* t, gaussian() = g / 1000 for the offset d
BandPoint(ut, g, w, h, mk) ==
  LET cx == IDiv(w, 2)
      cy == IDiv(h, 2)
      dirx == Cos1000(mk.angle)
      diry == Sin1000(mk.angle)
      normx == -diry
      normy == dirx
      t == rand(-Hypot(w, h), Hypot(w, h), ut)
      d == IDiv(g * IDiv(mk.width * 35, 100), 1000)
  IN  [ x |-> cx + IDiv(dirx * t, 1000) + IDiv(normx * d, 1000),
        y |-> cy + IDiv(diry * t, 1000) + IDiv(normy * d, 1000),
        d |-> d ]

\* 1000 * Math.exp(-k / 10), rounded down, for k = 0, 1, ...
ExpTab ==
  << 1000, 904, 818, 740, 670, 606, 548, 496, 449, 406,
     367, 332, 301, 272, 246, 223, 201, 182, 165, 149,
     135, 122, 110, 100, 90, 82, 74, 67, 60, 55,
     49, 45, 40, 36, 33, 30, 27, 24, 22, 20,
     18, 16, 14, 13, 12, 11, 10, 9, 8, 7,
     6, 6, 5, 4, 4, 4, 3, 3, 3, 2,
     2, 2, 2, 1, 1, 1, 1, 1, 1, 1 >>

\* Math.exp(-(d * d) / (2 * Math.pow(width * 0.45, 2))), in thousandths
DistFactor(d, width) ==
  LET s == IDiv(width * 45, 100)
      q10 == IDiv(d * d * 10, 2 * s * s)
  IN  IF q10 + 1 > Len(ExpTab) THEN 0 ELSE ExpTab[q10 + 1]

\* Mutant: the depth grows with the falloff factor
BandDepth_rising(f) == clamp(IDiv(f * 9, 10), 100, 950)

\* clamp(1 - distFactor * 0.9, 0.1, 0.95), in thousandths
BandDepth(f) == clamp(1000 - IDiv(f * 9, 10), 100, 950)

\* rand(0.6, 2.2) * (0.8 + distFactor), in thousandths
BandRadius(ur, f) == IDiv(rand(600, 2200, ur) * (800 + f), 1000)

\* clamp(0.3 + distFactor * 0.7, 0.25, 1), in thousandths
BandAlpha(f) == clamp(300 + IDiv(f * 7, 10), 250, 1000)

\* The star pushed for the accepted point p; d and the draw ur of the
\* radius are kept beside the star's own fields
BandStar(p, ur, mk) ==
  LET f == DistFactor(p.d, mk.width)
  IN  [ x |-> p.x, y |-> p.y, d |-> p.d, ur |-> ur,
        r |-> BandRadius(ur, f), baseAlpha |-> BandAlpha(f), depth |-> BandDepth(f) ]

\* if (x < -50 || x > W + 50 || y < -50 || y > H + 50) continue
BandReject(p, w, h) ==
  p.x < -BAND_MARGIN \/ p.x > w + BAND_MARGIN \/ p.y < -BAND_MARGIN \/ p.y > h + BAND_MARGIN

\* One iteration of the loop
BandIter(ut, g, ur) ==
  /\ band.pc = "loop"
  /\ BandLoopCond(band)
  /\ LET p == BandPoint(ut, g, W, H, milky)
     IN  band' = [ band EXCEPT !.tries = @ + 1,
                               !.arr = IF BandReject(p, W, H) THEN @
                                       ELSE Append(@, BandStar(p, ur, milky)) ]
  /\ UNCHANGED << clock, last, W, H, stars, bandStars, meteor, nextMeteorAt, parallax,
                  milky, chkTwinkle, chkMeteors, chkMilky, fx, lastSpawnAt, prevSpawnAt, synthRun,
                  clicks >>

\* return arr
BandReturn ==
  /\ band.pc = "loop"
  /\ ~BandLoopCond(band)
  /\ band' = [ band EXCEPT !.pc = "done" ]
  /\ UNCHANGED << clock, last, W, H, stars, bandStars, meteor, nextMeteorAt, parallax,
                  milky, chkTwinkle, chkMeteors, chkMilky, fx, lastSpawnAt, prevSpawnAt, synthRun,
                  clicks >>

----------------------------------------------------------------------------
(* Inputs *)

Viewports == { << 800, 600 >>, << 1200, 800 >> }

\* rand(18, 42) * (+1 or -1), in degrees
InitAngles == { 18, -41 }

\* Math.random() draws: the least, and the greatest below 1
U == { 0, RandDen - 1 }

\* The draw of the click listener
NudgeU == { 0 }

\* Spawn tapes: the corner and the motion all least or all greatest, the
\* life and the gap each least or greatest.
Tapes == { Tape(g, g, g, g, g, l, p) : g \in U, l \in U, p \in U }

\* Elapsed times between frames
DTs == { 500, 9500 }

\* The tapes a frame run dt from now can read: one when it draws nothing
TapesAt(dt) == IF SpawnCond(clock + dt) THEN Tapes ELSE { Tape(0, 0, 0, 0, 0, 0, 0) }

\* Pointer events that carry no coordinates, or the centre of the viewport
NoCoords == [ clientX |-> << >>, clientY |-> << >>, touches |-> << >> ]
CentreEvents(w, h) ==
  { NoCoords,
    [ clientX |-> << IDiv(w, 2) >>, clientY |-> << IDiv(h, 2) >>, touches |-> << >> ],
    [ clientX |-> << >>, clientY |-> << >>,
      touches |-> << [ clientX |-> IDiv(w, 2), clientY |-> IDiv(h, 2) ] >> ] }

\* Pointer events of the parallax runs: none of the coordinates, the mouse in
\* the top right corner, a touch in the bottom left corner, and the mouse
\* dragged a quarter of the viewport past the top right corner
PointerEvents(w, h) ==
  { NoCoords,
    [ clientX |-> << w >>, clientY |-> << 0 >>, touches |-> << >> ],
    [ clientX |-> << >>, clientY |-> << >>,
      touches |-> << [ clientX |-> 0, clientY |-> h ] >> ],
    [ clientX |-> << w + IDiv(w, 4) >>, clientY |-> << -IDiv(h, 4) >>, touches |-> << >> ] }

\* Frames of the parallax runs: ten a second
ParallaxDTs == { 100 }

\* Frames of the spawn runs: sixty a second
SpawnDTs == { 16 }

\* Frames of the long runs: four or two a second
LiveDTs == { 250, 500 }
MaxLiveDT == CHOOSE d \in LiveDTs : \A e \in LiveDTs : e <= d

BandIdle == [ pc |-> "idle", count |-> 0, arr |-> << >>, tries |-> 0 ]

\* Frames while a trail grows: no time between two frames, a quarter or
\* half a second
TrailDTs == { 0, 250, 500 }

\* The tape of least draws: from the left, life 500 ms, gap 3800 ms
TrailTapes == { Tape(0, 0, 0, 0, 0, 0, 0) }

\* Draws of the band sampler: t at the far end or the middle of the line,
\* the offset on the centreline or three deviations off it
BandU == { 0, RandDen \div 2 }
BandG == { 0, 1000, 3000 }

\* The draw of the radius of a band star
BandR == { 0, RandDen - 1 }

----------------------------------------------------------------------------
(* The state after the script has run: resize(); seedScene() *)

Boot(vp, angle, u) ==
  LET mk0 == [ angle |-> angle, width |-> 0, texture |-> Null, dirty |-> TRUE ]
      sc == seedScene(vp[1], vp[2], resize(vp[1], vp[2], mk0))
  IN  /\ clock = 0
      /\ last = 0
      /\ W = vp[1]
      /\ H = vp[2]
      /\ stars = sc.stars
      /\ bandStars = sc.bandStars
      /\ milky = sc.milky
      /\ meteor = Null
      /\ nextMeteorAt = 0 + rand(METEOR_MIN_GAP, METEOR_MAX_GAP, u)
      /\ parallax = [ x |-> 0, y |-> 0, targetX |-> 0, targetY |-> 0 ]
      /\ fx = NoFx(sc.made)
      /\ lastSpawnAt = -1
      /\ prevSpawnAt = -1
      /\ synthRun = 0
      /\ clicks = 0

Init ==
  /\ \E vp \in Viewports, angle \in InitAngles, u \in U : Boot(vp, angle, u)
  /\ chkTwinkle \in BOOLEAN
  /\ chkMeteors \in BOOLEAN
  /\ chkMilky \in BOOLEAN
  /\ band = BandIdle

Next ==
  \/ \E dt \in DTs : \E rnd \in TapesAt(dt) : Frame(dt, rnd)
  \/ \E vp \in Viewports : Resize(vp[1], vp[2])
  \/ \E u \in NudgeU : Click(u)
  \/ \E e \in CentreEvents(W, H) : OnPointer(e)
  \/ ToggleMeteors
  \/ ToggleMilky
  \/ ToggleTwinkle

Spec == Init /\ [][Next]_vars

\* Frames only, finely spaced: the growth of a meteor's trail
InitTrail ==
  /\ Boot(<< 800, 600 >>, 18, 0)
  /\ chkTwinkle = TRUE
  /\ chkMeteors = TRUE
  /\ chkMilky = TRUE
  /\ band = BandIdle

NextTrail == \E dt \in TrailDTs : \E rnd \in TrailTapes : Frame(dt, rnd)

SpecTrail == InitTrail /\ [][NextTrail]_vars

\* A call makeBandStars(count) in the booted scene, count from 0 to MaxCount
InitBand ==
  /\ \E vp \in Viewports : Boot(vp, 18, 0)
  /\ chkTwinkle = TRUE
  /\ chkMeteors = TRUE
  /\ chkMilky = TRUE
  /\ \E c \in 0..MaxCount :
       band = [ pc |-> "loop", count |-> c, arr |-> << >>, tries |-> 0 ]

NextBand ==
  \/ \E ut \in BandU, g \in BandG, ur \in BandR : BandIter(ut, g, ur)
  \/ BandReturn

\* The loop is straight-line code: it keeps running until it returns
SpecBand == InitBand /\ [][NextBand]_vars /\ WF_vars(NextBand)

\* The pointer moves during the first MovesUntil ms and then rests, while
\* frames and resizes go on; the meteors are switched off
InitParallax ==
  /\ \E vp \in Viewports : Boot(vp, 18, 0)
  /\ chkTwinkle = TRUE
  /\ chkMeteors = FALSE
  /\ chkMilky = TRUE
  /\ band = BandIdle

NextParallax ==
  \/ \E dt \in ParallaxDTs : Frame(dt, Tape(0, 0, 0, 0, 0, 0, 0))
  \/ \E vp \in Viewports : Resize(vp[1], vp[2])
  \/ \E e \in PointerEvents(W, H) : clock <= MovesUntil /\ OnPointer(e)

SpecParallax == InitParallax /\ [][NextParallax]_vars

\* Frames only, sixty a second, with the meteors switched on
InitSpawn ==
  /\ \E vp \in Viewports, angle \in InitAngles, u \in U : Boot(vp, angle, u)
  /\ chkTwinkle = TRUE
  /\ chkMeteors = TRUE
  /\ chkMilky = TRUE
  /\ band = BandIdle

NextSpawn == \E dt \in SpawnDTs : \E rnd \in TapesAt(dt) : Frame(dt, rnd)

SpecSpawn == InitSpawn /\ [][NextSpawn]_vars

\* Frames that keep coming, with resizes and flips of the meteors toggle in
\* between: frame() ends by requesting the next frame
FrameLive == \E dt \in LiveDTs : \E rnd \in TapesAt(dt) : Frame(dt, rnd)

NextLive ==
  \/ FrameLive
  \/ \E vp \in Viewports : Resize(vp[1], vp[2])
  \/ ToggleMeteors

\* The steps of FrameLive, told by the clock: frame() alone moves it
FrameTick == \E dt \in LiveDTs : clock + dt <= MaxTime /\ clock' = clock + dt

SpecLive == InitSpawn /\ [][NextLive]_vars /\ WF_clock(FrameTick)

----------------------------------------------------------------------------
(* Properties *)

InMargin(x, y) ==
  x >= -MARGIN /\ x <= W + MARGIN /\ y >= -MARGIN /\ y <= H + MARGIN

\* A meteor is Active: present, not older than its life, inside the margin
Active == meteor # Null /\ meteor.age <= meteor.life /\ InMargin(meteor.x, meteor.y)

\* C1: there is one meteor slot, and no step calls spawnMeteor from a state
\* in which the meteor is Active; a frame that spawned leaves, if anything,
\* the meteor it spawned (one update old).
C1_NoSpawnWhileActive ==
  [][ fx'.spawned =>
        /\ ~Active
        /\ fx'.frame
        /\ meteor' # Null => Len(meteor'.trail) = 1 ]_vars

C1_Witness == fx.frame /\ fx.spawned /\ Active

\* C3: after a frame that updated a meteor, the meteor is Null if the update
\* made its age exceed its life or put it outside the margin, and otherwise
\* it is still there, as updated (age = life included).
C3_CullWithinFrame ==
  fx.frame /\ fx.upd # Null =>
    IF fx.upd.age > fx.upd.life \/ ~InMargin(fx.upd.x, fx.upd.y)
    THEN meteor = Null
    ELSE /\ meteor # Null
         /\ meteor.age = fx.upd.age
         /\ meteor.x = fx.upd.x
         /\ meteor.y = fx.upd.y

C3_Witness ==
  /\ fx.frame /\ fx.upd # Null
  /\ fx.upd.age = fx.upd.life
  /\ Active

\* C4: while the meteors toggle is off there is no meteor.
C4_NoMeteorWhileDisabled == ~chkMeteors => meteor = Null

C4_Witness == ~chkMeteors /\ ~fx.frame /\ lastSpawnAt = clock /\ meteor = Null

\* C5 as claimed: a step that spawns a meteor or in which the meteor
\* disappears leaves nextMeteorAt at the current time plus a gap.
C5_RescheduledOnSpawnAndDisappear ==
  [][ fx'.spawned \/ (meteor # Null /\ meteor' = Null) =>
        /\ nextMeteorAt' >= clock' + METEOR_MIN_GAP
        /\ nextMeteorAt' <= clock' + METEOR_MAX_GAP ]_vars

\* C5 amended: nextMeteorAt changes exactly in the steps that spawn, to the
\* current time plus a gap; a disappearance leaves it as it was.
C5_RescheduledOnSpawnOnly ==
  [][ /\ (nextMeteorAt' # nextMeteorAt) <=> fx'.spawned
      /\ fx'.spawned =>
           /\ nextMeteorAt' >= clock' + METEOR_MIN_GAP
           /\ nextMeteorAt' < clock' + METEOR_MAX_GAP ]_vars

C5_Witness ==
  /\ fx.frame /\ ~fx.spawned
  /\ fx.upd # Null /\ meteor = Null
  /\ nextMeteorAt < clock + METEOR_MIN_GAP

\* C6 as claimed: after a frame run with meteors enabled when the clock has
\* advanced by METEOR_MAX_GAP since boot, a meteor exists, younger than its life.
C6_ActiveAtMaxGap ==
  fx.frame /\ chkMeteors /\ clock = METEOR_MAX_GAP =>
    meteor # Null /\ meteor.age < meteor.life

\* C6 amended: after such a frame a meteor has been spawned since boot, and
\* a meteor that exists is Active (age <= life, inside the margin).
C6_SpawnedByMaxGap ==
  fx.frame /\ chkMeteors /\ clock = METEOR_MAX_GAP =>
    /\ lastSpawnAt >= 0
    /\ meteor # Null => Active

C6_Witness ==
  /\ fx.frame /\ chkMeteors /\ clock = METEOR_MAX_GAP
  /\ lastSpawnAt >= 0 /\ lastSpawnAt < clock
  /\ meteor = Null

\* C8: a frame run with the band toggle off draws no texture, builds none
\* and leaves milky as it was; flipping the toggle leaves milky as it was;
\* a frame run with the toggle on and a valid texture draws that texture
\* without building one.
C8_BandOffKeepsCache ==
  [][ /\ fx'.frame /\ ~chkMilky =>
           fx'.drawn = Null /\ fx'.made = {} /\ milky' = milky
      /\ chkMilky' # chkMilky => milky' = milky
      /\ fx'.frame /\ chkMilky /\ ~milky.dirty /\ milky.texture # Null =>
           fx'.drawn = milky.texture /\ fx'.made = {} /\ milky' = milky ]_vars

C8_Witness ==
  fx.frame /\ ~chkMilky /\ fx.drawn = Null /\ milky.dirty /\ milky.texture # Null

\* C9 as claimed: the step of a resize event leaves the flag stale.
C9_StaleAfterResize ==
  [][ "stars" \in fx'.made => milky'.dirty ]_vars

\* C9 amended: the step of a resize event builds both collections and the
\* texture for the new viewport and leaves the flag clear; the frame that
\* follows it draws that texture without building one.
C9_RebuiltInResize ==
  [][ /\ "stars" \in fx'.made =>
           /\ fx'.made = { "stars", "bandStars", "texture" }
           /\ stars'.W = W' /\ stars'.H = H'
           /\ bandStars'.W = W' /\ bandStars'.H = H'
           /\ milky'.texture # Null
           /\ milky'.texture.W = W' /\ milky'.texture.H = H'
           /\ ~milky'.dirty
      /\ "stars" \in fx.made /\ fx'.frame /\ chkMilky =>
           fx'.made = {} /\ fx'.drawn = milky.texture ]_vars

C9_Witness ==
  /\ ~fx.frame /\ "stars" \in fx.made /\ clock > 0
  /\ ~milky.dirty /\ milky.texture.W = W

\* C10: a frame builds the texture only with the band toggle on and the
\* texture stale or missing; the flag turns stale only in a click; frames
\* build the texture at most once between two resize or click events.
C10_RegenOnlyWhenStale ==
  [][ /\ fx'.frame /\ "texture" \in fx'.made =>
           chkMilky /\ (milky.dirty \/ milky.texture = Null)
      /\ milky'.dirty /\ ~milky.dirty => ~fx'.frame /\ fx'.made = { "bandStars" }
      /\ synthRun' <= 1 ]_vars

C10_Witness ==
  fx.frame /\ chkMilky /\ synthRun = 1 /\ fx.made = {} /\ fx.drawn = milky.texture

\* C2: a meteor's trail never holds more than 120 samples; a frame that
\* leaves a meteor has appended exactly one sample, the meteor's new
\* position and age, to the trail the meteor had (empty if just spawned),
\* after dropping that trail's oldest sample if it already held 120.
C2_TrailBounded ==
  [][ fx'.frame /\ meteor' # Null =>
        LET old == IF fx'.spawned THEN << >> ELSE meteor.trail
            smp == [ x |-> meteor'.x, y |-> meteor'.y, t |-> meteor'.age ]
        IN  /\ Len(meteor'.trail) <= TRAIL_CAP
            /\ meteor'.trail =
                 IF Len(old) < TRAIL_CAP THEN old \o << smp >>
                 ELSE SubSeq(old, 2, Len(old)) \o << smp >> ]_vars

C2_Witness ==
  /\ fx.frame /\ meteor # Null
  /\ Len(meteor.trail) = TRAIL_CAP
  /\ meteor.trail[1].t = meteor.age
  /\ clock > lastSpawnAt

\* C7: the loop never makes more than 30 * count attempts nor holds more
\* than count stars, it returns, and what it returns when every attempt
\* was rejected is the empty collection.
C7_BandTerminates ==
  /\ [](/\ band.tries <= TRIES_PER_STAR * band.count
        /\ Len(band.arr) <= band.count
        /\ band.pc = "done" =>
             Len(band.arr) = band.count \/ band.tries = TRIES_PER_STAR * band.count)
  /\ <>(band.pc = "done")

C7_Witness ==
  /\ band.pc = "done" /\ band.count = MaxCount
  /\ Len(band.arr) < band.count
  /\ band.tries = TRIES_PER_STAR * band.count


\* The distance from current to target on each axis, before and after a step
DistX == parallax.targetX - parallax.x
DistY == parallax.targetY - parallax.y

InUnit(v) == v >= -PScale /\ v <= PScale

\* C12: in every reachable state the target and the current parallax
\* offsets are within [-1, 1] on both axes.
C12_OffsetsInUnit ==
  /\ InUnit(parallax.targetX) /\ InUnit(parallax.targetY)
  /\ InUnit(parallax.x) /\ InUnit(parallax.y)

\* The steps of Spec, by the callback that takes them
FrameStep == \E dt \in DTs : \E rnd \in TapesAt(dt) : Frame(dt, rnd)
PointerStep == \E e \in CentreEvents(W, H) : OnPointer(e)
ToggleStep == ToggleMeteors \/ ToggleMilky \/ ToggleTwinkle
ClickStep == \E u \in NudgeU : Click(u)
ResizeStep == \E vp \in Viewports : Resize(vp[1], vp[2])

\* The star collections a step constructed
StarsMade == fx.made \cap { "stars", "bandStars" }

\* C13: frame, pointer and toggle callbacks construct no star collection and
\* leave both unchanged; a click constructs the band collection only, for
\* the nudged band, and leaves the general collection unchanged; a resize
\* constructs both for the new viewport; and no step changes a collection
\* other than by constructing it anew.
C13_StarsReplacedWholesale ==
  [][ /\ (FrameStep \/ PointerStep \/ ToggleStep) =>
           StarsMade' = {} /\ stars' = stars /\ bandStars' = bandStars
      /\ ClickStep =>
           /\ StarsMade' = { "bandStars" }
           /\ stars' = stars
           /\ bandStars' = makeBandStars(BAND_COUNT, W, H, milky')
      /\ ResizeStep =>
           /\ StarsMade' = { "stars", "bandStars" }
           /\ stars' = makeStars(STAR_COUNT, W', H')
           /\ bandStars' = makeBandStars(BAND_COUNT, W', H', milky')
      /\ stars' # stars => "stars" \in StarsMade'
      /\ bandStars' # bandStars => "bandStars" \in StarsMade' ]_vars

\* A click has replaced the band stars, built for the nudged angle, beside
\* general stars built at the last resize
C13_Witness ==
  /\ clicks = 1
  /\ StarsMade = { "bandStars" }
  /\ bandStars.angle = milky.angle
  /\ bandStars.angle \notin InitAngles
  /\ stars = makeStars(STAR_COUNT, W, H)
  /\ clock > 0

\* The falloff factor of a band star
Falloff(s) == DistFactor(s.d, milky.width)

\* Pairs of stars of the collection under construction, the first of at
\* least the falloff factor of the second, both of one radius draw
FalloffPairs ==
  { p \in (1..Len(band.arr)) \X (1..Len(band.arr)) :
      /\ Falloff(band.arr[p[1]]) >= Falloff(band.arr[p[2]])
      /\ band.arr[p[1]].ur = band.arr[p[2]].ur }

\* C14 as stated: a band star of larger falloff factor has no smaller
\* depth, radius (for one radius draw) or base opacity.
C14_AllRiseWithFalloff ==
  \A p \in FalloffPairs :
    /\ band.arr[p[1]].depth >= band.arr[p[2]].depth
    /\ band.arr[p[1]].r >= band.arr[p[2]].r
    /\ band.arr[p[1]].baseAlpha >= band.arr[p[2]].baseAlpha

\* C14 amended: a band star of larger falloff factor has no smaller radius
\* (for one radius draw) and no smaller base opacity, and no larger depth.
C14_DepthFallsWithFalloff ==
  \A p \in FalloffPairs :
    /\ band.arr[p[1]].depth <= band.arr[p[2]].depth
    /\ band.arr[p[1]].r >= band.arr[p[2]].r
    /\ band.arr[p[1]].baseAlpha >= band.arr[p[2]].baseAlpha

\* Two stars of one radius draw, one on the centreline and one off it, with
\* depth, radius and opacity all different
C14_Witness ==
  \E p \in FalloffPairs :
    /\ Falloff(band.arr[p[1]]) > Falloff(band.arr[p[2]])
    /\ band.arr[p[1]].depth < band.arr[p[2]].depth
    /\ band.arr[p[1]].r > band.arr[p[2]].r
    /\ band.arr[p[1]].baseAlpha > band.arr[p[2]].baseAlpha
    /\ band.arr[p[2]].depth < 950

\* C15: a step that spawns a meteor is taken at a time not before the
\* next-allowed-spawn timestamp and leaves that timestamp within
\* [now + METEOR_MIN_GAP, now + METEOR_MAX_GAP]; two consecutive spawns are
\* at least METEOR_MIN_GAP apart.
C15_SpawnsKeepMinGap ==
  [][ fx'.spawned =>
        /\ clock' >= nextMeteorAt
        /\ nextMeteorAt' >= clock' + METEOR_MIN_GAP
        /\ nextMeteorAt' <= clock' + METEOR_MAX_GAP
        /\ lastSpawnAt' = clock'
        /\ prevSpawnAt' = lastSpawnAt
        /\ lastSpawnAt >= 0 => clock' - lastSpawnAt >= METEOR_MIN_GAP ]_vars

\* A second meteor has just spawned, in the first frame the timestamp set
\* by the first spawn allowed
C15_Witness ==
  /\ fx.spawned
  /\ lastSpawnAt = clock
  /\ prevSpawnAt >= 0
  /\ clock - prevSpawnAt >= METEOR_MIN_GAP
  /\ clock - prevSpawnAt < METEOR_MIN_GAP + 500

\* The texture synthesized for the current band and viewport
CurrentTexture == makeMilkyTexture(W, H, milky).texture

\* C16: the texture a frame draws was synthesized for the current band
\* angle, band width and viewport, and in every state, so at every frame,
\* the band stars were generated for the current band angle and viewport.
C16_DrawnForCurrentGeometry ==
  /\ fx.frame /\ fx.drawn # Null => fx.drawn = CurrentTexture
  /\ bandStars = makeBandStars(BAND_COUNT, W, H, milky)

\* After a click, a frame has rebuilt the texture and drawn it at the
\* nudged angle
C16_Witness ==
  /\ fx.frame /\ fx.drawn # Null
  /\ clicks = 1
  /\ "texture" \in fx.made
  /\ fx.drawn.angle = milky.angle
  /\ milky.angle \notin InitAngles
  /\ bandStars.angle = fx.drawn.angle

\* C17: after a frame that spawned a meteor and ran for less than the
\* meteor's life, the meteor is there and Active, its first integrated
\* position inside the margin.
C17_SpawnFrameKeepsMeteor ==
  fx.frame /\ fx.spawned /\ fx.upd.age < fx.upd.life =>
    /\ InMargin(fx.upd.x, fx.upd.y)
    /\ meteor # Null
    /\ Active

\* Frames can be run for n more ms before the clock reaches MaxTime
TimeLeft(n) == clock + n <= MaxTime

\* C18: a frame adds its positive elapsed time to the age of the meteor it
\* keeps, and an Active meteor, with the time left to outlive the longest
\* life, is eventually removed.
C18_ActiveEventuallyAbsent ==
  /\ [][ fx'.frame /\ ~fx'.spawned /\ meteor' # Null =>
           meteor # Null /\ meteor'.age > meteor.age /\ meteor'.life = meteor.life ]_vars
  /\ (Active /\ TimeLeft(LIFE_MAX + MaxLiveDT)) ~> (meteor = Null)

\* A frame has removed a meteor that stayed inside the margin and outlived
\* its life
C18_Witness ==
  /\ fx.frame /\ ~fx.spawned
  /\ fx.upd # Null
  /\ fx.upd.age > fx.upd.life
  /\ InMargin(fx.upd.x, fx.upd.y)
  /\ meteor = Null
  /\ chkMeteors

\* C19: from a state with the toggle enabled and no Active meteor, with the
\* time left for a frame at or after the next-allowed-spawn timestamp (and
\* one more to clear a meteor a resize has put outside the margin), a new
\* meteor is eventually spawned unless the toggle is disabled first.
C19_AbsentEventuallySpawns ==
  (/\ chkMeteors /\ ~Active /\ ~fx.spawned
   /\ TimeLeft(2 * MaxLiveDT)
   /\ nextMeteorAt + 2 * MaxLiveDT <= MaxTime) ~> (fx.spawned \/ ~chkMeteors)

\* A second meteor has spawned, after the first was removed
C19_Witness ==
  /\ fx.frame /\ fx.spawned /\ chkMeteors
  /\ prevSpawnAt >= 0
  /\ lastSpawnAt = clock
====
